---- MODULE Spec2Model ----
(***************************************************************************)
(* Model of datalad/downloaders/base.py: BaseDownloader._access (the       *)
(* authenticated-access retry loop) driving BaseDownloader._download (the  *)
(* fetch-into-temporary-file / validate / rename pipeline), as            *)
(* BaseDownloader.download composes them.                                  *)
(*                                                                         *)
(* The collaborators that base.py leaves abstract are the environment:     *)
(*   _establish_session   returns used_old_session (a boolean)             *)
(*   _get_download_details returns (downloader, target_size, url_filename) *)
(*   downloader(fp, pbar) writes chunks into fp, returns or raises         *)
(*   authenticator.check_for_auth_failure  raises on a failure marker      *)
(*   ui.yesno             the user's answer                                *)
(***************************************************************************)
EXTENDS Integers, FiniteSets, Sequences, TLC

(***************************************************************************)
(* Program constants                                                       *)
(***************************************************************************)
\* base.py:79  "if attempt > 20"
MaxAttempts == 20
\* base.py:221 "downloaded_size < 10000"
SmallBody == 10000
\* base.py:159 target_size is "int or None (if uknown)"; None is modelled as -1
None == -1
\* base.py:145 suffix of the temporary file
TempSuffix == ".datalad-download-temp"

(***************************************************************************)
(* Bounds of the model                                                     *)
(***************************************************************************)
\* the downloader callback writes at most MaxChunks chunks per call
MaxChunks == 2

\* sizes of the chunks the downloader may write (1 byte, or just below the
\* small-body threshold so that two chunks cross it)
ChunkSizes == {1, SmallBody - 1}
\* sizes _get_download_details may announce: unknown, zero, and non-zero
\* sizes that the chunks can and cannot add up to
TargetSizes == {None, 0, 1, SmallBody}

(***************************************************************************)
(* Paths and the file system                                               *)
(***************************************************************************)
\* url_filename returned by _get_download_details
UrlFilename == "report.csv"
\* the one existing directory, named without and with a trailing separator
Dirs == {"outdir", "outdir/"}
\* the values of the path argument: absent (empty, falsy), a directory, a file
NoPath == ""
PathArgs == {NoPath, "outdir", "outdir/", "data.bin"}

isdir(p) == p \in Dirs

\* os.path.join of two components: an absolute second component wins, and
\* a separator is inserted unless the first component is empty or ends in one
opj(a, b) ==
    IF Len(b) > 0 /\ SubSeq(b, 1, 1) = "/" THEN b
    ELSE IF Len(a) = 0 \/ SubSeq(a, Len(a), Len(a)) = "/" THEN a \o b
    ELSE a \o "/" \o b

\* a mutant: a directory is not recognised, the path is taken verbatim
ResolveVerbatim(p) ==
    IF p # NoPath THEN p ELSE UrlFilename

\* the resolution of the final path
Resolve(p) ==
    IF p # NoPath
    THEN IF isdir(p) THEN opj(p, UrlFilename) ELSE p
    ELSE UrlFilename

_get_temp_download_filename(f) == f \o TempSuffix

FinalPaths == {Resolve(p) : p \in PathArgs}
Files == FinalPaths \cup {_get_temp_download_filename(f) : f \in FinalPaths}

\* a file's state: absent, or content identified by who wrote it (src = 0:
\* before the _access call; src = k: the downloader of attempt k), its size
\* in bytes, and whether it matches the authenticator's failure_re
Absent == [exists |-> FALSE, src |-> 0, size |-> 0, marker |-> FALSE]
File(s, n, m) == [exists |-> TRUE, src |-> s, size |-> n, marker |-> m]
OldFile == File(0, 1, FALSE)
StaleTemp == File(0, 3, FALSE)

exists(fsys, f) == fsys[f].exists

(***************************************************************************)
(* The downloader object                                                   *)
(***************************************************************************)
\* self.authenticator: not attached, or attached with requires_authentication
\* True / False / None and with or without a non-empty failure_re
TriState == {"True", "False", "None"}
NoAuthenticator == [attached |-> FALSE, requires_authentication |-> "None", failure_re |-> FALSE]
Authenticators ==
    {NoAuthenticator} \cup
    [attached : {TRUE}, requires_authentication : TriState, failure_re : BOOLEAN]

VARIABLES
    \* the downloader and the arguments of download()
    authenticator,       \* self.authenticator
    path,                \* path argument
    overwrite,           \* overwrite argument
    \* the file system
    fs,
    \* _access locals
    attempt,
    allow_old_session,
    used_old_session,
    access_denied,
    \* _download locals
    target_size,
    downloaded_size,
    raised,              \* the exception in flight, "none" if none
    \* control
    pc,
    outcome,             \* how the _access call ended, "none" while running
    \* observations of the run
    pre,                 \* the file system when the current _download call started
    opened,              \* the current _download call opened the temporary file
    chunks,              \* chunks written by the current downloader call
    fetched,             \* the temporary file when the downloader returned
    fetch_calls,         \* downloader invocations of the current _download call
    renames,             \* os.rename calls of the current _download call
    sess_calls,          \* _establish_session calls of the _access call
    op_calls,            \* method invocations of the _access call
    prompts,             \* ui.yesno calls
    enter_new_calls,     \* credential.enter_new calls
    denied_reused,       \* AccessDeniedError caught after a reused session
    denied_fresh,        \* AccessDeniedError caught after a fresh session
    raised_args,         \* the numbers in the message of the exception in flight
    cause,               \* where the current _download call first raised, and what
    result,              \* the value the current _download call returned
    auth_checks,         \* check_for_auth_failure calls of the current _download call
    final_writes         \* os.rename calls of the _access call

config == <<authenticator, path, overwrite>>
access_locals == <<attempt, allow_old_session, used_old_session, access_denied>>
download_locals == <<target_size, downloaded_size, raised>>
call_obs == <<pre, opened, chunks, fetched, fetch_calls, renames>>
access_obs == <<sess_calls, op_calls, prompts, enter_new_calls, denied_reused, denied_fresh>>
call_out == <<raised_args, cause, result, auth_checks, final_writes>>
vars == <<config, fs, access_locals, download_locals, pc, outcome, call_obs, access_obs,
          call_out>>

\* nothing was raised
NoCause == [site |-> "none", type |-> "none"]
Cause(s, t) == [site |-> s, type |-> t]

\* a mutant: without an authenticator the requirement is taken as known False
NeedsAuthenticationDefaultFalse ==
    IF authenticator.attached THEN authenticator.requires_authentication ELSE "False"

\* base.py:74  needs_authentication = authenticator and authenticator.requires_authentication
needs_authentication ==
    IF authenticator.attached THEN authenticator.requires_authentication ELSE "None"

filepath == Resolve(path)
temp_filepath == _get_temp_download_filename(filepath)

\* Python truthiness of target_size: None and 0 are false
Truthy(n) == n # None /\ n # 0

Init ==
    /\ authenticator \in Authenticators
    /\ path \in PathArgs
    /\ overwrite \in BOOLEAN
    /\ \E f0 \in {Absent, OldFile}, t0 \in {Absent, StaleTemp} :
          fs = [f \in Files |->
                  IF f = Resolve(path) THEN f0
                  ELSE IF f = _get_temp_download_filename(Resolve(path)) THEN t0
                  ELSE Absent]
    /\ attempt = 0
    /\ allow_old_session \in BOOLEAN
    /\ used_old_session = FALSE
    /\ access_denied = FALSE
    /\ target_size = None
    /\ downloaded_size = 0
    /\ raised = "none"
    /\ pc = "a_loop"
    /\ outcome = "none"
    /\ pre = fs
    /\ opened = FALSE
    /\ chunks = 0
    /\ fetched = Absent
    /\ fetch_calls = 0
    /\ renames = 0
    /\ sess_calls = 0
    /\ op_calls = 0
    /\ prompts = 0
    /\ enter_new_calls = 0
    /\ denied_reused = 0
    /\ denied_fresh = 0
    /\ raised_args = <<>>
    /\ cause = NoCause
    /\ result = NoPath
    /\ auth_checks = 0
    /\ final_writes = 0

(***************************************************************************)
(* _access: one iteration of the while loop up to the call of method       *)
(***************************************************************************)
\* what _establish_session(url, allow_old) may return: base.py:87-88 asserts
\* that a session is never reported as reused when reuse was not allowed
SessionResults(allow_old) == IF allow_old THEN BOOLEAN ELSE {FALSE}

\* lines 78-90 with the guard "attempt > limit": attempt += 1, the guard
\* passes, the session is established and method is called (_download starts)
Attempt(limit) ==
    /\ pc = "a_loop"
    /\ attempt + 1 <= limit
    /\ attempt' = attempt + 1
    /\ \E r \in SessionResults(allow_old_session) : used_old_session' = r
    /\ access_denied' = FALSE
    /\ sess_calls' = sess_calls + 1
    /\ op_calls' = op_calls + 1
    /\ pre' = fs
    /\ opened' = FALSE /\ chunks' = 0 /\ fetched' = Absent
    /\ fetch_calls' = 0 /\ renames' = 0
    /\ target_size' = None /\ downloaded_size' = 0 /\ raised' = "none"
    /\ pc' = "d_start"
    /\ raised_args' = <<>> /\ cause' = NoCause /\ result' = NoPath /\ auth_checks' = 0
    /\ UNCHANGED <<final_writes,
                   config, fs, allow_old_session, outcome, prompts,
                   enter_new_calls, denied_reused, denied_fresh>>

\* a mutant: the guard is off by one ("attempt > 21")
AccessAttemptOffByOne == Attempt(MaxAttempts + 1)

AccessAttempt == Attempt(MaxAttempts)

\* attempt += 1, attempt > 20: RuntimeError leaves _access
AccessGiveUp ==
    /\ pc = "a_loop"
    /\ attempt + 1 > MaxAttempts
    /\ attempt' = attempt + 1
    /\ outcome' = "RuntimeError"
    /\ pc' = "done"
    /\ UNCHANGED <<raised_args, cause, result, auth_checks, final_writes,
                   config, fs, allow_old_session, used_old_session, access_denied,
                   download_locals, call_obs, access_obs>>

(***************************************************************************)
(* _download                                                               *)
(***************************************************************************)
\* a mutant: the "already exists" check is missing
DownloadResolveNoExistsCheck ==
    /\ pc = "d_start"
    /\ \E ts \in TargetSizes : target_size' = ts
    /\ pc' = "d_open"
    /\ UNCHANGED <<raised_args, cause, result, auth_checks, final_writes,
                   config, fs, access_locals, downloaded_size, raised, outcome,
                   call_obs, access_obs>>

\* lines 182-196: the download details are obtained, the final path is
\* resolved, and an existing final path without overwrite raises
\* DownloadError (outside the try block: no handler of _download runs)
DownloadResolve ==
    /\ pc = "d_start"
    /\ \E ts \in TargetSizes : target_size' = ts
    /\ IF exists(fs, filepath) /\ ~overwrite
       THEN raised' = "DownloadError" /\ pc' = "d_raised"
       ELSE raised' = raised /\ pc' = "d_open"
    /\ cause' = IF exists(fs, filepath) /\ ~overwrite
                THEN Cause("exists", "DownloadError") ELSE cause
    /\ UNCHANGED <<raised_args, result, auth_checks, final_writes,
                   config, fs, access_locals, downloaded_size, outcome,
                   call_obs, access_obs>>

\* the temporary file is opened 'wb' (created or truncated) and the
\* downloader is called on it
OpenTemp(tmp) ==
    /\ pc = "d_open"
    /\ fs' = [fs EXCEPT ![tmp] = File(attempt, 0, FALSE)]
    /\ opened' = TRUE
    /\ fetch_calls' = fetch_calls + 1
    /\ pc' = "d_fetch"
    /\ UNCHANGED <<raised_args, cause, result, auth_checks, final_writes,
                   config, access_locals, download_locals, outcome, pre, chunks,
                   fetched, renames, access_obs>>

\* a mutant: the content is fetched straight into the final path
DownloadOpenFinal == OpenTemp(filepath)

\* lines 203-215
DownloadOpenTemp == OpenTemp(temp_filepath)

\* line 211 fails (IOError): nothing is opened, the exception goes to the
\* handlers of the try block
DownloadOpenFails ==
    /\ pc = "d_open"
    /\ raised' = "Exception"
    /\ pc' = "d_except"
    /\ cause' = Cause("open", raised')
    /\ UNCHANGED <<raised_args, result, auth_checks, final_writes,
                   config, fs, access_locals, target_size, downloaded_size, outcome,
                   call_obs, access_obs>>

\* line 215: the downloader writes one chunk into the temporary file
FetchWrite ==
    /\ pc = "d_fetch"
    /\ chunks < MaxChunks
    /\ \E n \in ChunkSizes, m \in BOOLEAN :
          fs' = [fs EXCEPT ![temp_filepath] =
                    File(attempt, @.size + n, @.marker \/ m)]
    /\ chunks' = chunks + 1
    /\ UNCHANGED <<raised_args, cause, result, auth_checks, final_writes,
                   config, access_locals, download_locals, pc, outcome, pre, opened,
                   fetched, fetch_calls, renames, access_obs>>

\* line 215: the downloader raises; the with statement closes the file
FetchRaise ==
    /\ pc = "d_fetch"
    /\ \E e \in {"AccessDeniedError", "Exception"} : raised' = e
    /\ pc' = "d_except"
    /\ cause' = Cause("fetch", raised')
    /\ UNCHANGED <<raised_args, result, auth_checks, final_writes,
                   config, fs, access_locals, target_size, downloaded_size, outcome,
                   call_obs, access_obs>>

\* lines 215-216: the downloader returns; the with statement closes the file
FetchReturn ==
    /\ pc = "d_fetch"
    /\ fetched' = fs[temp_filepath]
    /\ pc' = "d_check"
    /\ UNCHANGED <<raised_args, cause, result, auth_checks, final_writes,
                   config, fs, access_locals, download_locals, outcome, pre, opened,
                   chunks, fetch_calls, renames, access_obs>>

\* a mutant: the threshold is inclusive ("downloaded_size <= 10000")
AuthCheckAppliesInclusive(size) ==
    /\ authenticator.attached
    /\ size <= SmallBody
    /\ authenticator.failure_re

\* line 221-222: the condition under which check_for_auth_failure is called
AuthCheckApplies(size) ==
    /\ authenticator.attached
    /\ size < SmallBody
    /\ authenticator.failure_re

\* lines 217-229: the size of the temporary file is taken, and the body of a
\* small file is handed to check_for_auth_failure, which raises when the body
\* matches failure_re
DownloadAuthCheck ==
    /\ pc = "d_check"
    /\ downloaded_size' = fs[temp_filepath].size
    /\ IF AuthCheckApplies(fs[temp_filepath].size) /\ fs[temp_filepath].marker
       THEN /\ \E e \in {"AccessDeniedError", "Exception"} : raised' = e
            /\ pc' = "d_except"
       ELSE /\ raised' = raised
            /\ pc' = "d_size"
    /\ auth_checks' = auth_checks +
          (IF AuthCheckApplies(fs[temp_filepath].size) THEN 1 ELSE 0)
    /\ cause' = IF raised' # "none" THEN Cause("auth_check", raised') ELSE cause
    /\ UNCHANGED <<raised_args, result, final_writes,
                   config, fs, access_locals, target_size, outcome, call_obs, access_obs>>

\* lines 231-234
DownloadSizeCheck ==
    /\ pc = "d_size"
    /\ IF Truthy(target_size) /\ target_size # downloaded_size
       THEN raised' = "DownloadError" /\ pc' = "d_except"
       ELSE raised' = raised /\ pc' = "d_rename"
    /\ cause' = IF raised' # "none" THEN Cause("size_check", raised') ELSE cause
    /\ raised_args' = IF raised' # "none" THEN <<downloaded_size, target_size>>
                      ELSE raised_args
    /\ UNCHANGED <<result, auth_checks, final_writes,
                   config, fs, access_locals, target_size, downloaded_size, outcome,
                   call_obs, access_obs>>

\* line 237: os.rename(temp_filepath, filepath)
DownloadRename ==
    /\ pc = "d_rename"
    /\ fs' = [fs EXCEPT ![filepath] = fs[temp_filepath], ![temp_filepath] = Absent]
    /\ renames' = renames + 1
    /\ pc' = "d_finally"
    /\ final_writes' = final_writes + 1
    /\ UNCHANGED <<raised_args, cause, result, auth_checks,
                   config, access_locals, download_locals, outcome, pre, opened,
                   chunks, fetched, fetch_calls, access_obs>>

\* line 237 fails (OSError): nothing is renamed
DownloadRenameFails ==
    /\ pc = "d_rename"
    /\ raised' = "Exception"
    /\ pc' = "d_except"
    /\ cause' = Cause("rename", raised')
    /\ UNCHANGED <<raised_args, result, auth_checks, final_writes,
                   config, fs, access_locals, target_size, downloaded_size, outcome,
                   call_obs, access_obs>>

\* a mutant: the handler of AccessDeniedError is missing, everything is
\* replaced by DownloadError
DownloadExceptWrapAll ==
    /\ pc = "d_except"
    /\ raised' = "DownloadError"
    /\ raised_args' = <<>>
    /\ pc' = "d_finally"
    /\ UNCHANGED <<cause, result, auth_checks, final_writes,
                   config, fs, access_locals, target_size, downloaded_size, outcome,
                   call_obs, access_obs>>

\* lines 242-248: AccessDeniedError is re-raised, anything else is replaced
\* by DownloadError
DownloadExcept ==
    /\ pc = "d_except"
    /\ raised' = IF raised = "AccessDeniedError" THEN "AccessDeniedError"
                 ELSE "DownloadError"
    /\ pc' = "d_finally"
    /\ raised_args' = IF raised = "AccessDeniedError" THEN raised_args ELSE <<>>
    /\ UNCHANGED <<cause, result, auth_checks, final_writes,
                   config, fs, access_locals, target_size, downloaded_size, outcome,
                   call_obs, access_obs>>

\* a mutant: the temporary file is only removed on the way out of a success
DownloadFinallyNoCleanup ==
    /\ pc = "d_finally"
    /\ fs' = fs
    /\ pc' = IF raised = "none" THEN "d_returned" ELSE "d_raised"
    /\ result' = IF raised = "none" THEN filepath ELSE result
    /\ UNCHANGED <<raised_args, cause, auth_checks, final_writes,
                   config, access_locals, download_locals, outcome, call_obs,
                   access_obs>>

\* lines 249-255: the temporary file is removed if it exists; then the call
\* returns filepath or the exception leaves _download
DownloadFinally ==
    /\ pc = "d_finally"
    /\ fs' = IF exists(fs, temp_filepath)
             THEN [fs EXCEPT ![temp_filepath] = Absent]
             ELSE fs
    /\ pc' = IF raised = "none" THEN "d_returned" ELSE "d_raised"
    /\ result' = IF raised = "none" THEN filepath ELSE result
    /\ UNCHANGED <<raised_args, cause, auth_checks, final_writes,
                   config, access_locals, download_locals, outcome, call_obs,
                   access_obs>>

(***************************************************************************)
(* _access: what follows the call of method                                *)
(***************************************************************************)
\* lines 90-92 and 138: method returned, the loop is left, result is returned
AccessSuccess ==
    /\ pc = "d_returned"
    /\ outcome' = "Result"
    /\ pc' = "done"
    /\ UNCHANGED <<raised_args, cause, result, auth_checks, final_writes,
                   config, fs, access_locals, download_locals, call_obs, access_obs>>

\* a mutant: every DownloadError is handled as an access denial
AccessCatchAnyError ==
    /\ pc = "d_raised"
    /\ access_denied' = TRUE
    /\ denied_reused' = denied_reused + (IF used_old_session THEN 1 ELSE 0)
    /\ denied_fresh' = denied_fresh + (IF used_old_session THEN 0 ELSE 1)
    /\ raised' = "none"
    /\ pc' = "a_decide"
    /\ UNCHANGED <<call_out, config, fs, attempt, allow_old_session, used_old_session,
                   target_size, downloaded_size, call_obs, sess_calls, op_calls,
                   prompts, enter_new_calls, outcome>>

\* lines 93-98: AccessDeniedError is noted in access_denied, any other
\* DownloadError is re-raised
AccessCatch ==
    /\ pc = "d_raised"
    /\ IF raised = "AccessDeniedError"
       THEN /\ access_denied' = TRUE
            /\ denied_reused' = denied_reused + (IF used_old_session THEN 1 ELSE 0)
            /\ denied_fresh' = denied_fresh + (IF used_old_session THEN 0 ELSE 1)
            /\ raised' = "none"
            /\ pc' = "a_decide"
            /\ outcome' = outcome
       ELSE /\ outcome' = raised
            /\ pc' = "done"
            /\ UNCHANGED <<access_denied, denied_reused, denied_fresh, raised>>
    /\ UNCHANGED <<raised_args, cause, result, auth_checks, final_writes,
                   config, fs, attempt, allow_old_session, used_old_session,
                   target_size, downloaded_size, call_obs, sess_calls, op_calls,
                   prompts, enter_new_calls>>

\* a mutant: "if not needs_authentication" instead of the is-False test, so
\* that an unknown requirement is handled as the known-False one
DecisionNoneAsFalse(needs, used_old) ==
    IF needs = "True"
    THEN IF used_old THEN "retry" ELSE "prompt"
    ELSE "DownloadError"

\* a mutant: the user is asked whenever access was denied, whatever is known
\* about the requirement
DecisionAlwaysPrompt(needs, used_old) ==
    IF needs = "True" /\ used_old THEN "retry" ELSE "prompt"

\* a mutant: the session freshness is not looked at, the user is asked at once
DecisionNoFreshRetry(needs, used_old) ==
    IF needs = "True"
    THEN "prompt"
    ELSE IF needs = "False" THEN "DownloadError" ELSE "AccessDeniedError"

\* the decision of lines 100-136 as a function of what "if needs_authentication"
\* and "needs_authentication is False" see: "retry", "prompt", or the error raised
Decision(needs, used_old) ==
    IF needs = "True"
    THEN IF used_old THEN "retry" ELSE "prompt"
    ELSE IF needs = "False" THEN "DownloadError" ELSE "AccessDeniedError"

\* a mutant: the retry after a reused session does not clear allow_old_session
AccessDecideKeepsReuse ==
    /\ pc = "a_decide"
    /\ access_denied
    /\ LET d == Decision(needs_authentication, used_old_session) IN
         CASE d = "retry" ->
                /\ pc' = "a_loop"
                /\ UNCHANGED <<outcome, prompts, allow_old_session>>
           [] d = "prompt" ->
                /\ prompts' = prompts + 1
                /\ pc' = "a_prompt"
                /\ UNCHANGED <<outcome, allow_old_session>>
           [] OTHER ->
                /\ outcome' = d
                /\ pc' = "done"
                /\ UNCHANGED <<allow_old_session, prompts>>
    /\ UNCHANGED <<call_out, config, fs, attempt, used_old_session, access_denied,
                   download_locals, call_obs, sess_calls, op_calls, enter_new_calls,
                   denied_reused, denied_fresh>>

\* lines 100-136 up to the call of ui.yesno
AccessDecide ==
    /\ pc = "a_decide"
    /\ access_denied
    /\ LET d == Decision(needs_authentication, used_old_session) IN
         CASE d = "retry" ->
                /\ allow_old_session' = FALSE
                /\ pc' = "a_loop"
                /\ UNCHANGED <<outcome, prompts>>
           [] d = "prompt" ->
                /\ prompts' = prompts + 1
                /\ pc' = "a_prompt"
                /\ UNCHANGED <<outcome, allow_old_session>>
           [] OTHER ->
                /\ outcome' = d
                /\ pc' = "done"
                /\ UNCHANGED <<allow_old_session, prompts>>
    /\ UNCHANGED <<raised_args, cause, result, auth_checks, final_writes,
                   config, fs, attempt, used_old_session, access_denied,
                   download_locals, call_obs, sess_calls, op_calls, enter_new_calls,
                   denied_reused, denied_fresh>>

\* lines 117-124: the answer of ui.yesno; yes: credential.enter_new(), fresh
\* session, next iteration; no: DownloadError
UserAnswer ==
    /\ pc = "a_prompt"
    /\ \E yes \in BOOLEAN :
          IF yes
          THEN /\ enter_new_calls' = enter_new_calls + 1
               /\ allow_old_session' = FALSE
               /\ pc' = "a_loop"
               /\ outcome' = outcome
          ELSE /\ outcome' = "DownloadError"
               /\ pc' = "done"
               /\ UNCHANGED <<enter_new_calls, allow_old_session>>
    /\ UNCHANGED <<raised_args, cause, result, auth_checks, final_writes,
                   config, fs, attempt, used_old_session, access_denied,
                   download_locals, call_obs, sess_calls, op_calls, prompts,
                   denied_reused, denied_fresh>>

Next ==
    \/ AccessAttempt
    \/ AccessGiveUp
    \/ DownloadResolve
    \/ DownloadOpenTemp
    \/ DownloadOpenFails
    \/ FetchWrite
    \/ FetchRaise
    \/ FetchReturn
    \/ DownloadAuthCheck
    \/ DownloadSizeCheck
    \/ DownloadRename
    \/ DownloadRenameFails
    \/ DownloadExcept
    \/ DownloadFinally
    \/ AccessSuccess
    \/ AccessCatch
    \/ AccessDecide
    \/ UserAnswer

Spec == Init /\ [][Next]_vars

\* the scheduling of a sequential program: a step that can be taken is taken
FairSpec == Spec /\ WF_vars(Next)

TypeOK ==
    /\ authenticator \in Authenticators
    /\ attempt \in 0..(MaxAttempts + 1)
    /\ pc \in {"a_loop", "d_start", "d_open", "d_fetch", "d_check", "d_size",
               "d_rename", "d_except", "d_finally", "d_returned", "d_raised",
               "a_decide", "a_prompt", "done"}
    /\ outcome \in {"none", "Result", "DownloadError", "AccessDeniedError", "RuntimeError"}
    /\ raised \in {"none", "AccessDeniedError", "DownloadError", "Exception"}

(***************************************************************************)
(* Properties of _download                                                 *)
(***************************************************************************)
\* the checks of lines 221-234 let this content through
PassesChecks(c) ==
    /\ ~(AuthCheckApplies(c.size) /\ c.marker)
    /\ ~(Truthy(target_size) /\ target_size # c.size)

C1_FinalState ==
    \/ fs[filepath] = pre[filepath]
    \/ /\ fetched.exists
       /\ fetched.src = attempt
       /\ fs[filepath] = fetched
       /\ PassesChecks(fetched)
       /\ renames = 1

C1_FinalStep ==
    /\ \A f \in Files \ {filepath, temp_filepath} : fs'[f] = fs[f]
    /\ fs'[filepath] # fs[filepath] =>
          /\ pc = "d_rename"
          /\ renames = 0 /\ renames' = 1
          /\ fs'[filepath] = fs[temp_filepath]

\* C1: at every point of a _download call the final path holds what it held
\* when the call started or the complete content this call's downloader left
\* in the temporary file, and then both checks have let it through; the final
\* path changes in one step only, the single os.rename of the call.
C1_FinalPathAtomic == []C1_FinalState /\ [][C1_FinalStep]_vars

\* a call returned, having replaced an old final file with fetched content
\* over a stale temporary file
C1_Witness ==
    /\ pc = "d_returned"
    /\ pre[filepath] = OldFile
    /\ pre[temp_filepath] = StaleTemp
    /\ fs[filepath].src = attempt
    /\ fs[filepath].size > 1

\* C2: when _download returns normally the final path exists, the temporary
\* path does not, and the size of the final file equals the announced
\* target_size whenever one was announced (target_size is not None).
C2_SuccessState ==
    pc = "d_returned" =>
       /\ exists(fs, filepath)
       /\ ~exists(fs, temp_filepath)
       /\ (target_size # None => fs[filepath].size = target_size)

\* C3: when a _download call that opened the temporary file ends in an
\* error, the final path is as it was when the call started and the
\* temporary path does not exist when the error reaches the caller.
C3_FailureLeavesNothing ==
    (pc = "d_raised" /\ opened) =>
       /\ fs[filepath] = pre[filepath]
       /\ ~exists(fs, temp_filepath)

\* an error reaches the caller after content was written next to an old
\* final file that overwrite=True allowed to replace
C3_Witness ==
    /\ pc = "d_raised"
    /\ opened
    /\ chunks > 0
    /\ overwrite
    /\ pre[filepath] = OldFile
    /\ fs[filepath] = OldFile

\* C4: a final path that exists at the call, with overwrite=False: the call
\* fails with DownloadError, the downloader is never invoked, and neither the
\* temporary nor the final path is created, truncated, renamed or deleted.
C4_ExistingNotTouched ==
    (exists(pre, filepath) /\ ~overwrite /\ pc \notin {"a_loop", "d_start"}) =>
       /\ pc \in {"d_raised", "done"}
       /\ pc = "d_raised" => raised = "DownloadError"
       /\ pc = "done" => outcome = "DownloadError"
       /\ fetch_calls = 0
       /\ ~opened
       /\ renames = 0
       /\ fs = pre

\* the call was refused while a stale temporary file was lying around
C4_Witness ==
    /\ pc = "d_raised"
    /\ ~overwrite
    /\ fs[filepath] = OldFile
    /\ fs[temp_filepath] = StaleTemp

(***************************************************************************)
(* Properties of _access                                                   *)
(***************************************************************************)
Denials == denied_reused + denied_fresh

C5_State ==
    needs_authentication = "True" =>
       /\ denied_reused <= 1
       /\ prompts = denied_fresh -
                      (IF pc = "a_decide" /\ ~used_old_session THEN 1 ELSE 0)

C5_Step ==
    needs_authentication = "True" =>
       \* the denial on a reused session: straight to the next iteration,
       \* which the guard lets through
       /\ (pc = "a_decide" /\ used_old_session) =>
             /\ pc' = "a_loop"
             /\ ~allow_old_session'
             /\ prompts' = prompts
             /\ attempt < MaxAttempts
       \* that iteration: a session that is not reused, the operation again
       /\ (pc = "a_loop" /\ denied_reused = 1 /\ denied_fresh = 0) =>
             /\ ~allow_old_session
             /\ pc' = "d_start"
             /\ ~used_old_session'
             /\ sess_calls' = sess_calls + 1
             /\ op_calls' = op_calls + 1
             /\ prompts' = prompts
       \* the denial on a fresh session: one prompt
       /\ (pc = "a_decide" /\ ~used_old_session) =>
             /\ pc' = "a_prompt"
             /\ prompts' = prompts + 1

\* C5: with requires_authentication True, the denial of an attempt on a
\* reused session happens at most once and is followed, with no prompt in
\* between, by one retry on a session requested with reuse disallowed; every
\* denial of an attempt on a fresh session is followed by exactly one prompt.
C5_ReusedThenFreshThenPrompt == []C5_State /\ [][C5_Step]_vars

\* denied on the reused session, denied again on the fresh one, now asking
C5_Witness ==
    /\ needs_authentication = "True"
    /\ pc = "a_prompt"
    /\ denied_reused = 1
    /\ denied_fresh = 1
    /\ prompts = 1
    /\ sess_calls = 2

C6_Step ==
    \* declined
    /\ (pc = "a_prompt" /\ enter_new_calls' = enter_new_calls) =>
          /\ pc' = "done"
          /\ outcome' = "DownloadError"
          /\ op_calls' = op_calls
    \* accepted
    /\ (pc = "a_prompt" /\ pc' # "done") =>
          /\ enter_new_calls' = enter_new_calls + 1
          /\ pc' = "a_loop"
    \* the iteration after an accept
    /\ (pc = "a_loop" /\ enter_new_calls > 0) =>
          /\ ~allow_old_session
          /\ pc' = "d_start"
          /\ ~used_old_session'
          /\ sess_calls' = sess_calls + 1
          /\ op_calls' = op_calls + 1
          /\ prompts' = prompts

\* C6: a declined prompt ends the call with DownloadError without another
\* invocation of the operation; every accepted prompt calls enter_new once
\* and is followed by one further attempt (fresh session, operation invoked
\* once) before any further prompt.
C6_AcceptRetriesOnce == [][C6_Step]_vars

\* C7: every _access call terminates, and within it the operation is invoked
\* at most 20 times and a session is established at most 20 times.
C7_Terminates ==
    /\ [](op_calls <= MaxAttempts /\ sess_calls <= MaxAttempts)
    /\ <>(pc = "done")

\* always denied, the user always accepted: the call ended after 20 attempts
C7_Witness ==
    /\ pc = "done"
    /\ op_calls = MaxAttempts
    /\ sess_calls = MaxAttempts
    /\ Denials = MaxAttempts
    /\ enter_new_calls >= MaxAttempts - 1

\* C8: with an authenticator whose requires_authentication is False, a
\* denial ends the call with DownloadError on that attempt: no prompt, no
\* enter_new, no further session and no second invocation of the operation.
C8_KnownFalseFails ==
    (authenticator.attached /\ authenticator.requires_authentication = "False"
        /\ Denials > 0) =>
       /\ pc \in {"a_decide", "done"}
       /\ pc = "done" => outcome = "DownloadError"
       /\ attempt = 1 /\ sess_calls = 1 /\ op_calls = 1
       /\ prompts = 0 /\ enter_new_calls = 0

C8_Witness ==
    /\ authenticator.attached
    /\ authenticator.requires_authentication = "False"
    /\ denied_reused = 1
    /\ pc = "done"
    /\ outcome = "DownloadError"

\* C9: with an authenticator whose requires_authentication is None, a denial
\* ends the call with AccessDeniedError on that attempt, on a reused session
\* as on a fresh one: no prompt, no enter_new, no retry.
C9_UnknownFails ==
    (authenticator.attached /\ authenticator.requires_authentication = "None"
        /\ Denials > 0) =>
       /\ pc \in {"a_decide", "done"}
       /\ pc = "done" => outcome = "AccessDeniedError"
       /\ attempt = 1 /\ sess_calls = 1 /\ op_calls = 1
       /\ prompts = 0 /\ enter_new_calls = 0

C9_Witness ==
    /\ authenticator.attached
    /\ authenticator.requires_authentication = "None"
    /\ denied_reused = 1
    /\ pc = "done"
    /\ outcome = "AccessDeniedError"

\* C10: an _access call ends by returning the result of a successful
\* invocation or with a DownloadError (AccessDeniedError included), never
\* with another error: the guard on attempt is never triggered.
C10_ResultOrDownloadError ==
    pc = "done" => outcome \in {"Result", "DownloadError", "AccessDeniedError"}

(***************************************************************************)
(* Error propagation                                                       *)
(***************************************************************************)
C11_Step ==
    /\ (pc = "d_raised" /\ raised # "AccessDeniedError") =>
          /\ raised = "DownloadError"
          /\ pc' = "done"
          /\ outcome' = "DownloadError"
          /\ UNCHANGED <<fs, access_locals, access_obs>>
    /\ pc = "done" => UNCHANGED vars

\* C11: a DownloadError of the operation that is not an AccessDeniedError
\* leaves _access as it is on that attempt: the next step ends the call with
\* it, with no further session, invocation, prompt or enter_new, and nothing
\* happens after the call has ended.
C11_OtherErrorPropagates == [][C11_Step]_vars

\* the downloader failed on a reused session of a downloader that requires
\* authentication, and the call ended with that error
C11_Witness ==
    /\ pc = "done"
    /\ outcome = "DownloadError"
    /\ needs_authentication = "True"
    /\ used_old_session
    /\ cause = Cause("fetch", "Exception")
    /\ Denials = 0
    /\ op_calls = 1

\* C12: when the size check finds the downloaded size different from the
\* announced one, the DownloadError that reaches the caller carries both
\* sizes, and the final path is as before the call.
C12_MismatchReportsSizes ==
    (pc = "d_raised" /\ cause.site = "size_check") =>
       /\ raised = "DownloadError"
       /\ raised_args = <<downloaded_size, target_size>>
       /\ fs[filepath] = pre[filepath]

\* C13: for every announced size, zero included, a downloaded size that
\* differs from it makes the call fail with a DownloadError and leaves the
\* final path as it was.
C13_AnyKnownSizeChecked ==
    (pc \in {"d_returned", "d_raised"} /\ fetched.exists
        /\ target_size # None /\ fetched.size # target_size) =>
       /\ pc = "d_raised"
       /\ raised \in {"DownloadError", "AccessDeniedError"}
       /\ fs[filepath] = pre[filepath]

InTryBlock == cause.site \notin {"none", "exists"}

C14_State ==
    (pc = "d_raised" /\ InTryBlock) =>
       /\ raised = IF cause.type = "AccessDeniedError" THEN "AccessDeniedError"
                   ELSE "DownloadError"
       /\ fs[filepath] = pre[filepath]

C14_Step ==
    (pc = "d_raised" /\ InTryBlock) =>
       IF cause.type = "AccessDeniedError"
       THEN pc' = "a_decide" /\ access_denied'
       ELSE /\ pc' = "done" /\ outcome' = "DownloadError"
            /\ UNCHANGED <<attempt, prompts, enter_new_calls, sess_calls, op_calls>>

\* C14: an AccessDeniedError raised inside the try block of _download reaches
\* _access as an AccessDeniedError, which runs its denial decision; any other
\* exception reaches it as a DownloadError that is not an AccessDeniedError,
\* which ends the call; the final path is as before the call in both cases.
C14_DeniedUnwrappedOthersWrapped == []C14_State /\ [][C14_Step]_vars

\* the body check raised AccessDeniedError after content was fetched next to
\* an old final file
C14_Witness ==
    /\ pc = "d_raised"
    /\ cause = Cause("auth_check", "AccessDeniedError")
    /\ raised = "AccessDeniedError"
    /\ chunks > 0
    /\ pre[filepath] = OldFile

(***************************************************************************)
(* The final path                                                          *)
(***************************************************************************)
\* the final path of each path argument, spelled out
ExpectedFinal ==
    CASE path = "" -> "report.csv"
      [] path = "outdir" -> "outdir/report.csv"
      [] path = "outdir/" -> "outdir/report.csv"
      [] path = "data.bin" -> "data.bin"

BodyChecked == fetched.exists /\ pc # "d_check"

\* an authenticator with a failure pattern is attached and the body is small
SmallBodyWithPattern ==
    /\ authenticator.attached
    /\ authenticator.failure_re
    /\ fetched.size < SmallBody

C17_State ==
    /\ auth_checks = IF BodyChecked /\ SmallBodyWithPattern THEN 1 ELSE 0
    /\ (BodyChecked /\ SmallBodyWithPattern /\ fetched.marker) =>
          /\ cause.site = "auth_check"
          /\ raised_args = <<>>
          /\ renames = 0
          /\ fs[filepath] = pre[filepath]

C17_Step ==
    auth_checks' > auth_checks =>
       /\ pc = "d_check"
       /\ fetched.exists
       /\ cause = NoCause
       /\ renames = 0
       /\ pc' \in {"d_size", "d_except"}

\* C17: check_for_auth_failure is called exactly when an authenticator with
\* a non-empty failure_re is attached and the downloaded size is below 10000;
\* the call comes after the downloader returned and before the size
\* comparison and the rename, so a body with the failure marker is reported
\* by the check, whatever its size, and is not published.
C17_AuthCheckBeforeSizeCheck == []C17_State /\ [][C17_Step]_vars

\* a body with the failure marker and of the wrong size was reported by the
\* check
C17_Witness ==
    /\ pc = "d_raised"
    /\ cause.site = "auth_check"
    /\ auth_checks = 1
    /\ fetched.marker
    /\ Truthy(target_size)
    /\ target_size # downloaded_size

C18_State ==
    needs_authentication = "True" =>
       /\ denied_reused <= 1
       /\ (Denials > 0 /\ pc \notin {"a_decide", "a_prompt", "done"}) =>
             ~allow_old_session
       /\ (Denials > 0 /\ pc \notin {"a_loop", "a_decide", "a_prompt", "done"}) =>
             ~used_old_session

C18_Step ==
    /\ allow_old_session' => allow_old_session
    /\ (needs_authentication = "True" /\ Denials > 0 /\ sess_calls' # sess_calls) =>
          ~allow_old_session /\ ~used_old_session'

\* C18: within an _access call allow_old_session only goes from allowed to
\* disallowed; with requires_authentication True every session established
\* after a denial is requested with reuse disallowed and is not reused, and
\* the retry after a reused session is taken at most once.
C18_ReuseOnlyDecreases == []C18_State /\ [][C18_Step]_vars

\* several fresh attempts after the one on a reused session
C18_Witness ==
    /\ needs_authentication = "True"
    /\ pc = "d_start"
    /\ denied_reused = 1
    /\ denied_fresh >= 2
    /\ ~allow_old_session
    /\ ~used_old_session

\* C19: without an authenticator a denial ends the call as in the unknown
\* case, with AccessDeniedError on that attempt and no prompt or retry; the
\* DownloadError of the known-False case is only raised with an attached
\* authenticator whose requires_authentication is False.
C19_NoAuthenticatorIsUnknown ==
    /\ (~authenticator.attached /\ Denials > 0) =>
          /\ pc \in {"a_decide", "done"}
          /\ pc = "done" => outcome = "AccessDeniedError"
          /\ attempt = 1 /\ sess_calls = 1 /\ op_calls = 1
          /\ prompts = 0 /\ enter_new_calls = 0
    /\ (pc = "done" /\ access_denied /\ outcome = "DownloadError" /\ prompts = 0) =>
          /\ authenticator.attached
          /\ authenticator.requires_authentication = "False"

C19_Witness ==
    /\ ~authenticator.attached
    /\ pc = "done"
    /\ outcome = "AccessDeniedError"
    /\ Denials = 1

NoTempFinalUntouched ==
    /\ ~exists(fs, temp_filepath)
    /\ final_writes = 0
    /\ fs[filepath] = pre[filepath]

\* C20: after a denied attempt of download the temporary file is gone and
\* the final path untouched before _access decides, prompts or retries; the
\* temporary path does not exist either when the call has ended after a
\* success, a decline or an error raised once the temporary file was opened;
\* the final path is renamed onto at most once per call, by the attempt that
\* succeeds.
C20_RetriesLeaveNoTemp ==
    /\ pc \in {"a_decide", "a_prompt"} => NoTempFinalUntouched
    /\ (pc = "a_loop" /\ attempt > 0) => NoTempFinalUntouched
    /\ (pc = "done" /\ (outcome = "Result" \/ opened \/ Denials > 0)) =>
          ~exists(fs, temp_filepath)
    /\ final_writes <= 1
    /\ final_writes = 0 => fs[filepath] = pre[filepath]
    /\ final_writes = 1 =>
          /\ raised = "none"
          /\ pc \in {"d_finally", "d_returned", "done"}
          /\ pc = "done" => outcome = "Result"

\* the call succeeded after a denial on a reused session and a denial on a
\* fresh one, over a stale temporary file
C20_Witness ==
    /\ pc = "done"
    /\ outcome = "Result"
    /\ denied_reused = 1
    /\ denied_fresh >= 1
    /\ prompts >= 1
    /\ final_writes = 1
    /\ fs[filepath].src = attempt

(***************************************************************************)
(* Two _download calls on the same final path, running concurrently        *)
(*                                                                         *)
(* The file system is a name table over inodes, since a file that one call *)
(* has open stays the same file when another call truncates, renames or    *)
(* unlinks its name.  The locals of _download are functions over the       *)
(* callers; a body is the sequence of the callers that wrote each byte.    *)
(* No authenticator is attached, so the condition of line 221 is false.    *)
(***************************************************************************)
Procs == {1, 2}
\* inodes: the old final file, the stale temporary file, one per caller
OldInode == 1
StaleInode == 2
NewInode(p) == 2 + p
Inodes == {OldInode, StaleInode} \cup {NewInode(p) : p \in Procs}
NoInode == 0
\* sizes _get_download_details may announce to the concurrent callers
ConcTargetSizes == {None, 1}

\* the body after a write of one byte by p at offset off (holes read as 0)
WriteAt(body, off, p) ==
    [i \in 1..(IF Len(body) > off + 1 THEN Len(body) ELSE off + 1) |->
        IF i = off + 1 THEN p ELSE IF i <= Len(body) THEN body[i] ELSE 0]

ConcInit ==
    /\ authenticator = NoAuthenticator
    /\ path = "data.bin"
    /\ overwrite = TRUE
    /\ \E f0 \in {NoInode, OldInode}, t0 \in {NoInode, StaleInode} :
          fs = [names |-> [final |-> f0, temp |-> t0],
                data |-> [k \in Inodes |->
                            IF k = OldInode THEN <<0>>
                            ELSE IF k = StaleInode THEN <<0, 0, 0>>
                            ELSE <<>>]]
    /\ pre = fs
    /\ pc = [p \in Procs |-> "d_start"]
    /\ target_size = [p \in Procs |-> None]
    /\ downloaded_size = [p \in Procs |-> 0]
    /\ raised = [p \in Procs |-> "none"]
    /\ opened = [p \in Procs |-> NoInode]
    /\ chunks = [p \in Procs |-> 0]
    /\ fetched = [p \in Procs |-> FALSE]
    /\ renames = [p \in Procs |-> 0]
    /\ attempt = 0
    /\ allow_old_session = TRUE
    /\ used_old_session = FALSE
    /\ access_denied = FALSE
    /\ outcome = "none"
    /\ fetch_calls = 0
    /\ sess_calls = 0 /\ op_calls = 0 /\ prompts = 0 /\ enter_new_calls = 0
    /\ denied_reused = 0 /\ denied_fresh = 0
    /\ raised_args = <<>> /\ cause = NoCause /\ result = NoPath
    /\ auth_checks = 0 /\ final_writes = 0

conc_unused == <<config, access_locals, outcome, pre, fetch_calls, access_obs, call_out>>

\* lines 182-196
ConcResolve(p) ==
    /\ pc[p] = "d_start"
    /\ \E ts \in ConcTargetSizes : target_size' = [target_size EXCEPT ![p] = ts]
    /\ IF fs.names.final # NoInode /\ ~overwrite
       THEN /\ raised' = [raised EXCEPT ![p] = "DownloadError"]
            /\ pc' = [pc EXCEPT ![p] = "d_raised"]
       ELSE /\ raised' = raised
            /\ pc' = [pc EXCEPT ![p] = "d_open"]
    /\ UNCHANGED <<fs, downloaded_size, opened, chunks, fetched, renames, conc_unused>>

\* lines 203-215: open(temp_filepath, 'wb') truncates the file the name
\* refers to, or creates one
ConcOpenTemp(p) ==
    /\ pc[p] = "d_open"
    /\ LET k == IF fs.names.temp # NoInode THEN fs.names.temp ELSE NewInode(p) IN
         /\ fs' = [names |-> [fs.names EXCEPT !.temp = k],
                   data |-> [fs.data EXCEPT ![k] = <<>>]]
         /\ opened' = [opened EXCEPT ![p] = k]
    /\ pc' = [pc EXCEPT ![p] = "d_fetch"]
    /\ UNCHANGED <<target_size, downloaded_size, raised, chunks, fetched, renames,
                   conc_unused>>

\* line 215: the downloader writes one byte at its own offset of the file
\* it has open
ConcFetchWrite(p) ==
    /\ pc[p] = "d_fetch"
    /\ chunks[p] < MaxChunks
    /\ fs' = [fs EXCEPT !.data[opened[p]] = WriteAt(@, chunks[p], p)]
    /\ chunks' = [chunks EXCEPT ![p] = @ + 1]
    /\ UNCHANGED <<target_size, downloaded_size, raised, pc, opened, fetched, renames,
                   conc_unused>>

\* line 215: the downloader raises
ConcFetchRaise(p) ==
    /\ pc[p] = "d_fetch"
    /\ \E e \in {"AccessDeniedError", "Exception"} : raised' = [raised EXCEPT ![p] = e]
    /\ pc' = [pc EXCEPT ![p] = "d_except"]
    /\ UNCHANGED <<fs, target_size, downloaded_size, opened, chunks, fetched, renames,
                   conc_unused>>

\* lines 215-216: the downloader returns
ConcFetchReturn(p) ==
    /\ pc[p] = "d_fetch"
    /\ fetched' = [fetched EXCEPT ![p] = TRUE]
    /\ pc' = [pc EXCEPT ![p] = "d_check"]
    /\ UNCHANGED <<fs, target_size, downloaded_size, raised, opened, chunks, renames,
                   conc_unused>>

\* lines 217-229: os.stat of the temporary path, which fails (OSError) when
\* the name is gone
ConcStat(p) ==
    /\ pc[p] = "d_check"
    /\ IF fs.names.temp = NoInode
       THEN /\ raised' = [raised EXCEPT ![p] = "Exception"]
            /\ pc' = [pc EXCEPT ![p] = "d_except"]
            /\ downloaded_size' = downloaded_size
       ELSE /\ downloaded_size' =
                  [downloaded_size EXCEPT ![p] = Len(fs.data[fs.names.temp])]
            /\ pc' = [pc EXCEPT ![p] = "d_size"]
            /\ raised' = raised
    /\ UNCHANGED <<fs, target_size, opened, chunks, fetched, renames, conc_unused>>

\* lines 231-234
ConcSizeCheck(p) ==
    /\ pc[p] = "d_size"
    /\ IF Truthy(target_size[p]) /\ target_size[p] # downloaded_size[p]
       THEN /\ raised' = [raised EXCEPT ![p] = "DownloadError"]
            /\ pc' = [pc EXCEPT ![p] = "d_except"]
       ELSE /\ raised' = raised
            /\ pc' = [pc EXCEPT ![p] = "d_rename"]
    /\ UNCHANGED <<fs, target_size, downloaded_size, opened, chunks, fetched, renames,
                   conc_unused>>

\* line 237: os.rename moves whatever file the temporary name refers to, and
\* fails (OSError) when the name is gone
ConcRename(p) ==
    /\ pc[p] = "d_rename"
    /\ IF fs.names.temp = NoInode
       THEN /\ raised' = [raised EXCEPT ![p] = "Exception"]
            /\ pc' = [pc EXCEPT ![p] = "d_except"]
            /\ UNCHANGED <<fs, renames>>
       ELSE /\ fs' = [fs EXCEPT !.names = [final |-> fs.names.temp, temp |-> NoInode]]
            /\ renames' = [renames EXCEPT ![p] = @ + 1]
            /\ pc' = [pc EXCEPT ![p] = "d_finally"]
            /\ raised' = raised
    /\ UNCHANGED <<target_size, downloaded_size, opened, chunks, fetched, conc_unused>>

\* lines 242-248
ConcExcept(p) ==
    /\ pc[p] = "d_except"
    /\ raised' = [raised EXCEPT ![p] =
                     IF @ = "AccessDeniedError" THEN "AccessDeniedError"
                     ELSE "DownloadError"]
    /\ pc' = [pc EXCEPT ![p] = "d_finally"]
    /\ UNCHANGED <<fs, target_size, downloaded_size, opened, chunks, fetched, renames,
                   conc_unused>>

\* lines 249-255: whatever file the temporary name refers to is unlinked
ConcFinally(p) ==
    /\ pc[p] = "d_finally"
    /\ fs' = IF fs.names.temp # NoInode
             THEN [fs EXCEPT !.names.temp = NoInode]
             ELSE fs
    /\ pc' = [pc EXCEPT ![p] = IF raised[p] = "none" THEN "d_returned" ELSE "d_raised"]
    /\ UNCHANGED <<target_size, downloaded_size, raised, opened, chunks, fetched,
                   renames, conc_unused>>

ConcNext ==
    \E p \in Procs :
       \/ ConcResolve(p)
       \/ ConcOpenTemp(p)
       \/ ConcFetchWrite(p)
       \/ ConcFetchRaise(p)
       \/ ConcFetchReturn(p)
       \/ ConcStat(p)
       \/ ConcSizeCheck(p)
       \/ ConcRename(p)
       \/ ConcExcept(p)
       \/ ConcFinally(p)

ConcSpec == ConcInit /\ [][ConcNext]_vars

\* caller q has the temporary file open or is about to stat or rename it
UsingTemp(q) == pc[q] \in {"d_fetch", "d_check", "d_size", "d_rename"}

\* the complete body of caller p: every byte its downloader wrote, once it
\* has returned
OwnBody(p) == [i \in 1..chunks[p] |-> p]

C16_State ==
    fs.names.final # pre.names.final =>
       \E p \in Procs :
          /\ fetched[p]
          /\ renames[p] = 1
          /\ fs.data[fs.names.final] = OwnBody(p)

C16_Step ==
    \A q \in Procs :
       (UsingTemp(q) /\ pc'[q] = pc[q] /\ chunks'[q] = chunks[q]) =>
          /\ fs'.names.temp = opened[q]
          /\ fs'.data[opened[q]] = fs.data[opened[q]]

\* C16: two concurrent _download calls on the same final path do not
\* collide on the temporary file: no call truncates, writes into, renames or
\* unlinks the temporary file the other is using, and the final path, once
\* replaced, holds the complete body of one call (the one that renamed
\* last), never a mixture or a partial body.
C16_NoTempCollision == []C16_State /\ [][C16_Step]_vars
====
